---- MODULE Spec2Model ----
(***************************************************************************)
(* A model of colossalai/inference/executor/rpc_worker.py: one             *)
(* rpcWorkerService instance (the Python object `self`), the process-wide  *)
(* state it touches (torch.distributed, the FDIntermTensors singleton) and *)
(* the communication of the other ranks of its process group.              *)
(*                                                                         *)
(* Python attributes that were never assigned are modelled as Unset; a     *)
(* read of such an attribute raises AttributeError.  An exception ends a   *)
(* handler where it is raised: every assignment made before it stays.      *)
(***************************************************************************)
EXTENDS Integers, Sequences, FiniteSets, TLC

\* ---------------------------------------------------------------- bounds
MaxWorldSize == 2
MaxBatch == 1
MaxBlocks == 2
MaxLayers == 2
MaxToken == 1
\* the sequence lengths and block sizes the sizing of the scratch pool is
\* checked over
MaxSeqLen == 4
MaxBlockSize == 3

\* ------------------------------------------------- attributes (set/unset)
\* An attribute is <<>> while unassigned and <<v>> once it holds v.
Unset == <<>>
Val(v) == <<v>>
Get(a) == a[1]
IsSet(a) == a # Unset

\* ---------------------------------------------------------------- inputs
NoPolicy == ""
PolicyNames == {NoPolicy, "NoPaddingLlamaModelInferPolicy", "UnknownPolicy"}

\* torch dtype names carried by the rpc parameter and the torch dtypes.
DtypeNames == {"fp16", "fp32"}

\* The serialized inference configs the coordinator may send.
ConfigParams ==
  [dtype : DtypeNames, max_batch_size : {MaxBatch}, max_input_len : {3},
   max_output_len : {2}, block_size : {2}, tp_size : 1..MaxWorldSize, pp_size : {1},
   max_n_spec_tokens : {0}, pad_input : {FALSE}]

\* The serialized configs the sizing of the scratch pool is checked over:
\* every max_input_len and max_output_len from 0 and every block_size from 1.
SizingParams ==
  [dtype : DtypeNames, max_batch_size : {MaxBatch}, max_input_len : 0..MaxSeqLen,
   max_output_len : 0..MaxSeqLen, block_size : 1..MaxBlockSize,
   tp_size : 1..MaxWorldSize, pp_size : {1}, max_n_spec_tokens : {0, 1},
   pad_input : {FALSE}]

\* model_or_path: an in-memory module or a checkpoint locator (a str).  What
\* matters of a locator is the architecture its config names, or that no
\* config can be loaded from it.
ModelInputs ==
  {[kind |-> "module", arch |-> "LlamaForCausalLM"],
   [kind |-> "path", arch |-> "LlamaForCausalLM"],
   [kind |-> "path", arch |-> "GPT2LMHeadModel"]}

\* alloc_shape = [num_blocks, num_kv_heads, block_size, head_size]
AllocShapes == {<<n, 1, 2, 2>> : n \in 1..MaxBlocks}

TokenInputs == {<<t>> : t \in 1..MaxToken}

\* The batch descriptor: its batch size and the block ids its block tables
\* name (block ids are numbered from 1 here).
MetaParams ==
  [batch_size : 1..(MaxBatch + 1), block_tables : (SUBSET (1..MaxBlocks)) \ {{}}]

\* ------------------------------------------------------------- registries
_supported_models == {"LlamaForCausalLM", "BaichuanForCausalLM"}

_supported_model_policies ==
  {"NoPaddingLlamaModelInferPolicy", "NoPaddingBaichuanModelInferPolicy"}

\* model_policy_map of colossalai.inference.modeling.policy
model_policy_map(key) ==
  IF key = "nopadding_llama" THEN Val("NoPaddingLlamaModelInferPolicy")
  ELSE IF key = "nopadding_baichuan" THEN Val("NoPaddingBaichuanModelInferPolicy")
  ELSE Unset

\* The transformers config of an architecture (model.config).
HfConfig(arch) ==
  IF arch = "LlamaForCausalLM"
  THEN [model_type |-> "llama", hidden_size |-> 4, num_attention_heads |-> 2,
        num_hidden_layers |-> 2]
  ELSE [model_type |-> "baichuan", hidden_size |-> 6, num_attention_heads |-> 2,
        num_hidden_layers |-> 1]

\* ----------------------------------------------------------------- state
VARIABLES
  self,         \* the attributes of the rpcWorkerService instance
  dist,         \* torch.distributed of this process: Unset or <<[rank, world_size]>>
  fd_singleton, \* the FDIntermTensors singleton: the buffer sets it holds
  pc,           \* where the worker's current remote call stands
  call,         \* the arguments of the call in flight
  peers,        \* per other rank of the group: where its current call stands
  data,         \* per rank: the tensor of its self-test in flight
  result,       \* how the worker's last finished call ended
  model_done,   \* history: exposed_init_model has returned normally
  cache_done    \* history: exposed_init_cache has returned normally

vars ==
  <<self, dist, fd_singleton, pc, call, peers, data, result, model_done, cache_done>>

Attrs ==
  {"inference_config", "dtype", "model_config", "device", "model",
   "fd_inter_tensor", "output_tensor", "k_cache", "v_cache"}

\* ----------------------------------------------------------- call results
Ack == [status |-> "ack", err |-> "", invoked |-> FALSE, value |-> <<>>]
Raise(e) == [status |-> "error", err |-> e, invoked |-> FALSE, value |-> <<>>]
NoResult == [status |-> "none", err |-> "", invoked |-> FALSE, value |-> <<>>]

Init ==
  /\ self = [a \in Attrs |-> Unset]
  /\ dist = Unset
  /\ fd_singleton = <<>>
  /\ pc = "idle"
  /\ call = <<>>
  /\ peers = [r \in 0..(MaxWorldSize - 1) |-> "none"]
  /\ data = [r \in 0..(MaxWorldSize - 1) |-> 0]
  /\ result = NoResult
  /\ model_done = FALSE
  /\ cache_done = FALSE

Ranks == 0..(MaxWorldSize - 1)

\* ------------------------------------------------- exposed_init_dist_env
\* colossalai.launch joins the process group; torch refuses to initialise
\* the default group a second time.
exposed_init_dist_env(rank, world_size) ==
  /\ pc = "idle"
  /\ IF IsSet(dist)
     THEN /\ result' = Raise("RuntimeError")
          /\ UNCHANGED <<dist, peers>>
     ELSE /\ dist' = Val([rank |-> rank, world_size |-> world_size])
          /\ peers' = [r \in Ranks |->
                         IF r < world_size /\ r # rank THEN "idle" ELSE "none"]
          /\ result' = Ack
  /\ UNCHANGED <<self, fd_singleton, pc, call, data, model_done, cache_done>>

\* ----------------------------------------------------- exposed_init_model
TorchDtype(name) == IF name = "fp16" THEN "torch.float16" ELSE "torch.float32"

\* InferenceConfig.from_rpc_param: the dict's fields, the dtype name turned
\* into the torch dtype.
from_rpc_param(param) == [param EXCEPT !.dtype = TorchDtype(param.dtype)]

\* ProcessGroupMesh(pp_size, tp_size) needs a mesh that covers the group.
ProcessGroupMeshOk(pp_size, tp_size, world_size) == pp_size * tp_size = world_size

\* The policy _init_model ends up with: the one handed in, or the one looked
\* up in model_policy_map under "padding_"/"nopadding_" + model_type
\* (Unset when the map has no such key).
AutoPolicy(pad_input, model_type) ==
  LET key == IF pad_input
             THEN (IF model_type = "llama" THEN "padding_llama" ELSE "padding_baichuan")
             ELSE (IF model_type = "llama" THEN "nopadding_llama" ELSE "nopadding_baichuan")
  IN model_policy_map(key)

\* _shardformer followed by ModelWrapper: the handle of the sharded model.
_shardformer(arch, cfg, dtype, policy) ==
  [arch |-> arch, dtype |-> dtype, policy |-> policy,
   tp_size |-> cfg.tp_size, pp_size |-> cfg.pp_size,
   enable_tensor_parallelism |-> (cfg.tp_size > 1),
   num_hidden_layers |-> HfConfig(arch).num_hidden_layers]

\* _init_model with a silent fallback: an architecture the registry does not
\* know is loaded as a LlamaForCausalLM.
_init_model_fallback(s, world_size, model_or_path, model_policy) ==
  LET cfg == Get(s.inference_config)
      arch == IF model_or_path.arch \in _supported_models
              THEN model_or_path.arch ELSE "LlamaForCausalLM"
      mc == HfConfig(arch)
      s1 == [s EXCEPT !.model_config = Val(mc), !.device = Val("cuda")]
      policy == IF model_policy = NoPolicy
                THEN AutoPolicy(cfg.pad_input, mc.model_type)
                ELSE Val(model_policy)
  IN IF ~IsSet(policy) THEN [s |-> s1, err |-> "KeyError"]
     ELSE IF ~ProcessGroupMeshOk(cfg.pp_size, cfg.tp_size, world_size)
          THEN [s |-> s1, err |-> "AssertionError"]
     ELSE [s |-> [s1 EXCEPT !.model = Val(_shardformer(arch, cfg, Get(s.dtype), Get(policy)))],
           err |-> ""]

\* _init_model(model_or_path, model_policy) on attributes s; world_size is
\* the size of the joined group.  Gives the attributes after it and the
\* exception it raised ("" for none).
_init_model(s, world_size, model_or_path, model_policy) ==
  LET cfg == Get(s.inference_config)
      \* the local variable `model`: bound unless the try block failed
      bound == model_or_path.kind = "module" \/ model_or_path.arch \in _supported_models
      mc == HfConfig(model_or_path.arch)
      s1 == [s EXCEPT !.model_config = Val(mc), !.device = Val("cuda")]
      policy == IF model_policy = NoPolicy
                THEN AutoPolicy(cfg.pad_input, mc.model_type)
                ELSE Val(model_policy)
  IN IF ~bound THEN [s |-> s, err |-> "UnboundLocalError"]
     ELSE IF ~IsSet(policy) THEN [s |-> s1, err |-> "KeyError"]
     ELSE IF ~ProcessGroupMeshOk(cfg.pp_size, cfg.tp_size, world_size)
          THEN [s |-> s1, err |-> "AssertionError"]
     ELSE [s |-> [s1 EXCEPT !.model =
                    Val(_shardformer(model_or_path.arch, cfg, Get(s.dtype), Get(policy)))],
           err |-> ""]

\* FDIntermTensors: _reset drops the buffers, initialize allocates one set.
FDReset(fd) == <<>>
FDInitialize(fd, shape, dtype) == Append(fd, [shape |-> shape, dtype |-> dtype])

\* The split count rounded down instead of up.
kv_max_split_num_floor(cfg) ==
  (cfg.max_input_len + cfg.max_output_len) \div cfg.block_size

kv_max_split_num(cfg) ==
  (cfg.max_input_len + cfg.max_output_len + cfg.block_size - 1) \div cfg.block_size

\* _init_fd_tensor without lines 105-106: buffers of an earlier call stay.
_init_fd_tensor_no_reset(s, fd) ==
  LET cfg == Get(s.inference_config)
      mc == Get(s.model_config)
      max_n_tokens == cfg.max_batch_size * (cfg.max_n_spec_tokens + 1)
      head_dim == mc.hidden_size \div mc.num_attention_heads
      shape == <<max_n_tokens, mc.num_attention_heads \div cfg.tp_size,
                 kv_max_split_num(cfg), head_dim>>
  IN [s |-> [s EXCEPT !.fd_inter_tensor = Val("FDIntermTensors")],
      fd |-> FDInitialize(fd, shape, Get(s.dtype))]

\* _init_fd_tensor on attributes s and the singleton fd.
_init_fd_tensor(s, fd) ==
  LET cfg == Get(s.inference_config)
      mc == Get(s.model_config)
      fd0 == IF Len(fd) > 0 THEN FDReset(fd) ELSE fd
      max_n_tokens == cfg.max_batch_size * (cfg.max_n_spec_tokens + 1)
      head_dim == mc.hidden_size \div mc.num_attention_heads
      shape == <<max_n_tokens, mc.num_attention_heads \div cfg.tp_size,
                 kv_max_split_num(cfg), head_dim>>
  IN [s |-> [s EXCEPT !.fd_inter_tensor = Val("FDIntermTensors")],
      fd |-> FDInitialize(fd0, shape, Get(s.dtype))]

\* torch.zeros((n, ...)): only whole rows (blocks) are told apart.
Zeros(n) == [i \in 1..n |-> 0]

\* _init_output_tensor that also drops the caches, as if every buffer of the
\* worker were rebuilt with the model.
_init_output_tensor_drop_cache(s) ==
  LET cfg == Get(s.inference_config)
      mc == Get(s.model_config)
  IN [s EXCEPT !.output_tensor =
        Val([shape |-> <<cfg.max_batch_size, mc.hidden_size>>, dtype |-> Get(s.dtype),
             rows |-> Zeros(cfg.max_batch_size)]),
        !.k_cache = Val(<<>>), !.v_cache = Val(<<>>)]

_init_output_tensor(s) ==
  LET cfg == Get(s.inference_config)
      mc == Get(s.model_config)
  IN [s EXCEPT !.output_tensor =
        Val([shape |-> <<cfg.max_batch_size, mc.hidden_size>>, dtype |-> Get(s.dtype),
             rows |-> Zeros(cfg.max_batch_size)])]

\* The body of exposed_init_model after its assertion: attributes, singleton
\* and exception after it.
InitModelBody(s, fd, world_size, param, model_or_path, model_policy_param) ==
  LET s1 == [s EXCEPT !.inference_config = Val(from_rpc_param(param))]
      s2 == [s1 EXCEPT !.dtype = Val(Get(s1.inference_config).dtype)]
      m == _init_model(s2, world_size, model_or_path, model_policy_param)
      f == _init_fd_tensor(m.s, fd)
  IN IF model_policy_param # NoPolicy /\ model_policy_param \notin _supported_model_policies
     THEN [s |-> s1, fd |-> fd, err |-> "KeyError"]
     ELSE IF m.err # "" THEN [s |-> m.s, fd |-> fd, err |-> m.err]
     ELSE [s |-> _init_output_tensor(f.s), fd |-> f.fd, err |-> ""]

\* exposed_init_model with its assertion one line late: the config is stored
\* before the process group is asked for.
exposed_init_model_late_assert(param, model_or_path, model_policy_param) ==
  /\ pc = "idle"
  /\ IF ~IsSet(dist)
     THEN /\ self' = [self EXCEPT !.inference_config = Val(from_rpc_param(param))]
          /\ result' = Raise("AssertionError")
          /\ UNCHANGED <<fd_singleton, model_done>>
     ELSE LET r == InitModelBody(self, fd_singleton, Get(dist).world_size,
                                 param, model_or_path, model_policy_param)
          IN /\ self' = r.s
             /\ fd_singleton' = r.fd
             /\ result' = IF r.err = "" THEN Ack ELSE Raise(r.err)
             /\ model_done' = (model_done \/ r.err = "")
  /\ UNCHANGED <<dist, pc, call, peers, data, cache_done>>

exposed_init_model(param, model_or_path, model_policy_param) ==
  /\ pc = "idle"
  /\ IF ~IsSet(dist)
     THEN /\ result' = Raise("AssertionError")
          /\ UNCHANGED <<self, fd_singleton, model_done>>
     ELSE LET r == InitModelBody(self, fd_singleton, Get(dist).world_size,
                                 param, model_or_path, model_policy_param)
          IN /\ self' = r.s
             /\ fd_singleton' = r.fd
             /\ result' = IF r.err = "" THEN Ack ELSE Raise(r.err)
             /\ model_done' = (model_done \/ r.err = "")
  /\ UNCHANGED <<dist, pc, call, peers, data, cache_done>>

\* ----------------------------------------------------- exposed_init_cache
\* torch.zeros(alloc_shape, dtype): one value per block (alloc_shape[0] of them).
ZeroBlocks(alloc_shape, dtype) ==
  [shape |-> alloc_shape, dtype |-> dtype, blocks |-> Zeros(alloc_shape[1])]

\* `for _ in range(num_layers): cache.append(torch.zeros(...))`
RECURSIVE AppendLayers(_, _, _)
AppendLayers(cache, tensor, num_layers) ==
  IF num_layers <= 0 THEN cache
  ELSE AppendLayers(Append(cache, tensor), tensor, num_layers - 1)

\* exposed_init_cache without lines 81-82: the lists of an earlier call are
\* appended to.
InitCacheBody_append(s, alloc_shape, num_layers) ==
  LET s1 == [s EXCEPT !.k_cache = IF IsSet(@) THEN @ ELSE Val(<<>>),
                      !.v_cache = IF IsSet(@) THEN @ ELSE Val(<<>>)]
  IN IF num_layers > 0 /\ ~IsSet(s.dtype)
     THEN [s |-> s1, err |-> "AttributeError"]
     ELSE LET tensor == ZeroBlocks(alloc_shape, Get(s.dtype))
          IN [s |-> [s1 EXCEPT
                       !.k_cache = Val(AppendLayers(Get(s1.k_cache), tensor, num_layers)),
                       !.v_cache = Val(AppendLayers(Get(s1.v_cache), tensor, num_layers))],
              err |-> ""]

\* The attributes after exposed_init_cache and the exception it raised: the
\* two lists are emptied first, self.dtype is read in the loop's first round.
InitCacheBody(s, alloc_shape, num_layers) ==
  LET s1 == [s EXCEPT !.k_cache = Val(<<>>), !.v_cache = Val(<<>>)]
  IN IF num_layers > 0 /\ ~IsSet(s.dtype)
     THEN [s |-> s1, err |-> "AttributeError"]
     ELSE LET tensor == ZeroBlocks(alloc_shape, Get(s.dtype))
          IN [s |-> [s1 EXCEPT
                       !.k_cache = Val(AppendLayers(Get(s1.k_cache), tensor, num_layers)),
                       !.v_cache = Val(AppendLayers(Get(s1.v_cache), tensor, num_layers))],
              err |-> ""]

exposed_init_cache(alloc_shape, num_layers) ==
  /\ pc = "idle"
  /\ LET r == InitCacheBody(self, alloc_shape, num_layers)
     IN /\ self' = r.s
        /\ result' = IF r.err = "" THEN Ack ELSE Raise(r.err)
        /\ cache_done' = (cache_done \/ r.err = "")
  /\ UNCHANGED <<dist, fd_singleton, pc, call, peers, data, model_done>>

\* ------------------------------------------ exposed_execute_model_forward
\* InputMetaData.from_rpc_param: the descriptor object, its scratch pool not
\* yet attached.
meta_from_rpc_param(param) ==
  [batch_size |-> param.batch_size, block_tables |-> param.block_tables,
   fd_inter_tensor |-> Unset]

\* self.output_tensor[:batch_size]: a slice never has more rows than the tensor.
SliceRows(tensor, batch_size) ==
  IF batch_size < Len(tensor.rows) THEN batch_size ELSE Len(tensor.rows)

\* The attributes line 90..94 read, in the order they are read.
ForwardReads ==
  <<"fd_inter_tensor", "device", "model", "output_tensor", "k_cache", "v_cache">>

\* The ranks of the tensor-parallel subgroup of `rank` in a (pp, tp) mesh.
TpGroup(rank, tp_size) ==
  {r \in Ranks : r \div tp_size = rank \div tp_size}

\* The worker's call enters the model's forward (line 94), or ends with the
\* AttributeError of the first unassigned attribute.
ForwardCall(input_token_ids, input_meta_data_param) ==
  /\ pc = "idle"
  /\ IF \E i \in 1..Len(ForwardReads) : ~IsSet(self[ForwardReads[i]])
     THEN /\ result' = Raise("AttributeError")
          /\ UNCHANGED <<pc, call>>
     ELSE /\ pc' = "forward"
          /\ call' = Val([input_token_ids |-> input_token_ids,
                         input_meta_data |->
                           [meta_from_rpc_param(input_meta_data_param)
                              EXCEPT !.fd_inter_tensor = self.fd_inter_tensor],
                         rows |-> SliceRows(Get(self.output_tensor),
                                            input_meta_data_param.batch_size)])
          /\ UNCHANGED result
  /\ UNCHANGED <<self, dist, fd_singleton, peers, data, model_done, cache_done>>

\* -- the model's forward (colossalai.inference.modeling) --
\* What a forward writes into the blocks of its block table.
KVTag(input_token_ids) == input_token_ids[Len(input_token_ids)]

RECURSIVE SumBlocks(_, _)
SumBlocks(blocks, ids) ==
  IF ids = {} THEN 0
  ELSE LET b == CHOOSE x \in ids : TRUE
       IN (IF b \in DOMAIN blocks THEN blocks[b] ELSE 0) + SumBlocks(blocks, ids \ {b})

\* A forward that writes every block of the layers it runs.
WriteCache_all(cache, num_hidden_layers, ids, tag) ==
  [l \in 1..Len(cache) |->
     IF l <= num_hidden_layers
     THEN [cache[l] EXCEPT !.blocks = [b \in DOMAIN cache[l].blocks |-> tag]]
     ELSE cache[l]]

WriteCache(cache, num_hidden_layers, ids, tag) ==
  [l \in 1..Len(cache) |->
     IF l <= num_hidden_layers
     THEN [cache[l] EXCEPT !.blocks =
             [b \in DOMAIN cache[l].blocks |->
                IF b \in ids THEN tag ELSE cache[l].blocks[b]]]
     ELSE cache[l]]

\* One logits row: a digest of the tokens, the batch row, the sharded model
\* and what the referenced cache blocks held on entry.
LogitRow(model, input_token_ids, meta, k_cache, v_cache, i) ==
  1 + ((KVTag(input_token_ids) + i + model.num_hidden_layers + model.tp_size
        + SumBlocks(k_cache[1].blocks, meta.block_tables)
        + SumBlocks(v_cache[1].blocks, meta.block_tables)) % 3)

\* model(input_token_ids, output_tensor[:batch_size], meta, k_cache, v_cache):
\* the caches and the output rows after it, the logits it returns, the
\* exception it raises.
ModelForward(model, input_token_ids, out_rows, rows, meta, k_cache, v_cache) ==
  IF Len(k_cache) < model.num_hidden_layers \/ Len(v_cache) < model.num_hidden_layers
  THEN [err |-> "IndexError", k_cache |-> k_cache, v_cache |-> v_cache,
        out_rows |-> out_rows, logits |-> <<>>]
  ELSE IF rows < meta.batch_size
  THEN [err |-> "RuntimeError", k_cache |-> k_cache, v_cache |-> v_cache,
        out_rows |-> out_rows, logits |-> <<>>]
  ELSE LET logits == [i \in 1..meta.batch_size |->
                        LogitRow(model, input_token_ids, meta, k_cache, v_cache, i)]
       IN [err |-> "",
           k_cache |-> WriteCache(k_cache, model.num_hidden_layers, meta.block_tables,
                                  KVTag(input_token_ids)),
           v_cache |-> WriteCache(v_cache, model.num_hidden_layers, meta.block_tables,
                                  KVTag(input_token_ids)),
           out_rows |-> [i \in 1..Len(out_rows) |->
                           IF i <= rows THEN logits[i] ELSE out_rows[i]],
           logits |-> [dtype |-> model.dtype, rows |-> logits]]

\* The all-reduce inside the forward of a tensor-parallel model completes
\* once every rank of the subgroup is in its matching forward call.
ForwardCollectiveReady ==
  LET model == Get(self.model)
  IN model.enable_tensor_parallelism =>
       \A r \in TpGroup(Get(dist).rank, model.tp_size) \ {Get(dist).rank} :
          r < Get(dist).world_size => peers[r] = "forward"

\* logits.tolist()
tolist(tensor) == tensor.rows

\* The call in flight guarded by a timeout: it gives up with an error while
\* the subgroup is incomplete.
ForwardReturn_timeout ==
  /\ pc = "forward"
  /\ ~ForwardCollectiveReady
  /\ result' = [Raise("TimeoutError") EXCEPT !.invoked = TRUE]
  /\ pc' = "idle"
  /\ call' = <<>>
  /\ UNCHANGED <<self, dist, fd_singleton, peers, data, model_done, cache_done>>

\* The call in flight whose result is added to what the reused output
\* buffer already held instead of overwriting it.
ForwardReturn_accumulate ==
  /\ pc = "forward"
  /\ ForwardCollectiveReady
  /\ LET c == Get(call)
         model == Get(self.model)
         out == Get(self.output_tensor)
         r == ModelForward(model, c.input_token_ids, out.rows, c.rows,
                           c.input_meta_data, Get(self.k_cache), Get(self.v_cache))
     IN /\ self' = [self EXCEPT !.k_cache = Val(r.k_cache), !.v_cache = Val(r.v_cache),
                                !.output_tensor = Val([out EXCEPT !.rows = r.out_rows])]
        /\ result' = IF r.err = ""
                     THEN [status |-> "logits", err |-> "", invoked |-> TRUE,
                           value |-> [i \in DOMAIN r.logits.rows |->
                                        r.logits.rows[i] + out.rows[i]]]
                     ELSE [Raise(r.err) EXCEPT !.invoked = TRUE]
        /\ peers' = [p \in Ranks |->
                       IF /\ model.enable_tensor_parallelism
                          /\ p \in TpGroup(Get(dist).rank, model.tp_size)
                          /\ peers[p] = "forward"
                       THEN "idle" ELSE peers[p]]
  /\ pc' = "idle"
  /\ call' = <<>>
  /\ UNCHANGED <<dist, fd_singleton, data, model_done, cache_done>>

\* The call in flight comes back from the model (lines 94..96).
ForwardReturn ==
  /\ pc = "forward"
  /\ ForwardCollectiveReady
  /\ LET c == Get(call)
         model == Get(self.model)
         out == Get(self.output_tensor)
         r == ModelForward(model, c.input_token_ids, out.rows, c.rows,
                           c.input_meta_data, Get(self.k_cache), Get(self.v_cache))
     IN /\ self' = [self EXCEPT !.k_cache = Val(r.k_cache), !.v_cache = Val(r.v_cache),
                                !.output_tensor = Val([out EXCEPT !.rows = r.out_rows])]
        /\ result' = IF r.err = ""
                     THEN [status |-> "logits", err |-> "", invoked |-> TRUE,
                           value |-> tolist(r.logits)]
                     ELSE [Raise(r.err) EXCEPT !.invoked = TRUE]
        /\ peers' = [p \in Ranks |->
                       IF /\ model.enable_tensor_parallelism
                          /\ p \in TpGroup(Get(dist).rank, model.tp_size)
                          /\ peers[p] = "forward"
                       THEN "idle" ELSE peers[p]]
  /\ pc' = "idle"
  /\ call' = <<>>
  /\ UNCHANGED <<dist, fd_singleton, data, model_done, cache_done>>

\* Another rank of the group is sent the matching forward call.
PeerForwardCall(r) ==
  /\ IsSet(dist)
  /\ peers[r] = "idle"
  /\ peers' = [peers EXCEPT ![r] = "forward"]
  /\ UNCHANGED <<self, dist, fd_singleton, pc, call, data, result, model_done, cache_done>>

\* ------------------------------------------ exposed_compute_only_for_test
\* Where each rank of the joined group stands ("none" outside the group).
Where(r) == IF r = Get(dist).rank THEN pc ELSE peers[r]

Members == {r \in Ranks : r < Get(dist).world_size}

\* Every rank of the group is moved from one place to another.
MoveAll(to) ==
  /\ pc' = to
  /\ peers' = [r \in Ranks |-> IF r \in Members /\ r # Get(dist).rank THEN to ELSE peers[r]]

\* dist.get_rank() and the rank's tensor; the call then waits at the barrier.
TestCall ==
  /\ pc = "idle"
  /\ IF ~IsSet(dist)
     THEN /\ result' = Raise("RuntimeError")
          /\ UNCHANGED <<pc, data>>
     ELSE /\ pc' = "barrier1"
          /\ data' = [data EXCEPT ![Get(dist).rank] = Get(dist).rank]
          /\ UNCHANGED result
  /\ UNCHANGED <<self, dist, fd_singleton, call, peers, model_done, cache_done>>

PeerTestCall(r) ==
  /\ IsSet(dist)
  /\ peers[r] = "idle"
  /\ peers' = [peers EXCEPT ![r] = "barrier1"]
  /\ data' = [data EXCEPT ![r] = r]
  /\ UNCHANGED <<self, dist, fd_singleton, pc, call, result, model_done, cache_done>>

\* dist.barrier(): passed once every rank of the group waits at it.
Barrier1 ==
  /\ IsSet(dist)
  /\ \A r \in Members : Where(r) = "barrier1"
  /\ MoveAll("all_reduce")
  /\ UNCHANGED <<self, dist, fd_singleton, call, data, result, model_done, cache_done>>

RECURSIVE SumData(_, _)
SumData(d, ranks) ==
  IF ranks = {} THEN 0
  ELSE LET r == CHOOSE x \in ranks : TRUE IN d[r] + SumData(d, ranks \ {r})

\* An all_reduce that exchanges nothing: every rank keeps its own tensor.
AllReduce_no_sum ==
  /\ IsSet(dist)
  /\ \A r \in Members : Where(r) = "all_reduce"
  /\ MoveAll("barrier2")
  /\ UNCHANGED <<self, dist, fd_singleton, call, data, result, model_done, cache_done>>

\* dist.all_reduce(data, op=SUM): every rank's tensor becomes the sum.
AllReduce ==
  /\ IsSet(dist)
  /\ \A r \in Members : Where(r) = "all_reduce"
  /\ data' = [r \in Ranks |-> IF r \in Members THEN SumData(data, Members) ELSE data[r]]
  /\ MoveAll("barrier2")
  /\ UNCHANGED <<self, dist, fd_singleton, call, result, model_done, cache_done>>

\* The second barrier; every call then returns data.item().
Barrier2 ==
  /\ IsSet(dist)
  /\ \A r \in Members : Where(r) = "barrier2"
  /\ MoveAll("idle")
  /\ result' = [status |-> "value", err |-> "", invoked |-> FALSE,
                value |-> <<data[Get(dist).rank]>>]
  /\ data' = [r \in Ranks |-> 0]
  /\ UNCHANGED <<self, dist, fd_singleton, call, model_done, cache_done>>

\* ------------------------------------------------------------------ Next
\* The block ids of a descriptor are handed out by the coordinator's block
\* allocator: they lie within the blocks of the allocated cache.
BlocksAllocated ==
  IF IsSet(self.k_cache) /\ Len(Get(self.k_cache)) > 0
  THEN DOMAIN Get(self.k_cache)[1].blocks
  ELSE 1..MaxBlocks

Next ==
  \/ \E world_size \in 1..MaxWorldSize : \E rank \in 0..(world_size - 1) :
       exposed_init_dist_env(rank, world_size)
  \/ \E param \in ConfigParams, model_or_path \in ModelInputs, policy \in PolicyNames :
       exposed_init_model(param, model_or_path, policy)
  \/ \E alloc_shape \in AllocShapes, num_layers \in 0..MaxLayers :
       exposed_init_cache(alloc_shape, num_layers)
  \/ \E input_token_ids \in TokenInputs, meta \in MetaParams :
       /\ meta.block_tables \subseteq BlocksAllocated
       /\ ForwardCall(input_token_ids, meta)
  \/ ForwardReturn
  \/ \E r \in Ranks : PeerForwardCall(r)
  \/ TestCall
  \/ \E r \in Ranks : PeerTestCall(r)
  \/ Barrier1
  \/ AllReduce
  \/ Barrier2

Spec == Init /\ [][Next]_vars

\* A forward whose collective has every rank of the subgroup in it, and the
\* model's computation with it, comes to an end.
FairSpec == Spec /\ WF_vars(ForwardReturn)

\* A barrier or an all-reduce that every rank of the group has entered
\* completes.
CollectiveFairSpec ==
  Spec /\ WF_vars(Barrier1) /\ WF_vars(AllReduce) /\ WF_vars(Barrier2)

\* -- the sizing of the scratch pool over a range of configs --
\* A worker that has joined its group (exposed_init_dist_env has returned).
SizingInit ==
  \E world_size \in 1..MaxWorldSize : \E rank \in 0..(world_size - 1) :
    /\ self = [a \in Attrs |-> Unset]
    /\ dist = Val([rank |-> rank, world_size |-> world_size])
    /\ fd_singleton = <<>>
    /\ pc = "idle"
    /\ call = <<>>
    /\ peers = [r \in Ranks |-> IF r < world_size /\ r # rank THEN "idle" ELSE "none"]
    /\ data = [r \in Ranks |-> 0]
    /\ result = Ack
    /\ model_done = FALSE
    /\ cache_done = FALSE

\* exposed_init_model with a config of SizingParams, called on a worker that
\* is fresh or whose last call carried a config of ConfigParams (a failed
\* call, or a completed one whose scratch pool this call resets).
SizingNext ==
  /\ \/ ~IsSet(self.inference_config)
     \/ \E p \in ConfigParams : self.inference_config = Val(from_rpc_param(p))
  /\ \E param \in SizingParams, model_or_path \in ModelInputs, policy \in PolicyNames :
       exposed_init_model(param, model_or_path, policy)

SizingSpec == SizingInit /\ [][SizingNext]_vars

\* ============================================================ properties
\* C1: while exposed_init_cache has never returned normally, a call of
\* exposed_execute_model_forward ends with an error without entering the
\* model's forward, and leaves the key and value cache as they were.
C1_ForwardBeforeCacheFails ==
  [][\A input_token_ids \in TokenInputs, meta \in MetaParams :
       (~cache_done /\ ForwardCall(input_token_ids, meta)) =>
         /\ pc' = "idle"
         /\ result'.status = "error"
         /\ self'.k_cache = self.k_cache
         /\ self'.v_cache = self.v_cache]_vars

\* C2: while exposed_init_model has never returned normally, every call of
\* exposed_init_cache, whatever its shape and layer count (0 included), ends
\* with an error and not with an acknowledgement.
C2_InitCacheBeforeModelFails ==
  [][\A alloc_shape \in AllocShapes, num_layers \in 0..MaxLayers :
       (~model_done /\ exposed_init_cache(alloc_shape, num_layers)) =>
         result'.status = "error"]_vars

\* C3: a call of exposed_init_model on a worker whose process group is not
\* initialised fails, and no attribute of the worker (nor the scratch pool)
\* is set or changed by it.
C3_InitModelNeedsGroup ==
  [][\A param \in ConfigParams, model_or_path \in ModelInputs, policy \in PolicyNames :
       (~IsSet(dist) /\ exposed_init_model(param, model_or_path, policy)) =>
         /\ result' = Raise("AssertionError")
         /\ self' = self
         /\ fd_singleton' = fd_singleton
         /\ model_done' = model_done]_vars

C3_Witness == ~IsSet(dist) /\ result = Raise("AssertionError")

CacheGeometry(s) ==
  [k |-> IF IsSet(s.k_cache)
         THEN Val([l \in 1..Len(Get(s.k_cache)) |-> Get(s.k_cache)[l].shape]) ELSE Unset,
   v |-> IF IsSet(s.v_cache)
         THEN Val([l \in 1..Len(Get(s.v_cache)) |-> Get(s.v_cache)[l].shape]) ELSE Unset]

SomeBlockWritten(s) ==
  /\ IsSet(s.k_cache)
  /\ \E l \in 1..Len(Get(s.k_cache)) :
       \E b \in DOMAIN Get(s.k_cache)[l].blocks : Get(s.k_cache)[l].blocks[b] # 0

\* C5 as claimed: once exposed_init_cache has returned normally, no later
\* step of the worker, a further exposed_init_cache included, changes the
\* number of cache layers or the shape of a key or value array.
C5_NeverResized ==
  [][cache_done => CacheGeometry(self') = CacheGeometry(self)]_vars

\* C5 as amended: once exposed_init_cache has returned normally, only a
\* further exposed_init_cache call changes the number of cache layers or the
\* shape of a key or value array; exposed_init_model, the forward and the
\* self-test, failed or not, leave them.
C5_ResizedOnlyByInitCache ==
  [][(cache_done /\ ~\E alloc_shape \in AllocShapes, num_layers \in 0..MaxLayers :
                       exposed_init_cache(alloc_shape, num_layers))
       => CacheGeometry(self') = CacheGeometry(self)]_vars

\* A cache that was allocated, written by a forward, and is still there
\* after the model was initialised again.
C5_Witness ==
  /\ cache_done
  /\ SomeBlockWritten(self)
  /\ result = Ack
  /\ Len(Get(self.k_cache)) = MaxLayers

\* C6: after an exposed_init_cache(alloc_shape, num_layers) that returned
\* normally the worker holds exactly num_layers key arrays and num_layers
\* value arrays, each of shape alloc_shape and all zero, whatever cache it
\* held before.
C6_InitCacheAllocates ==
  [][\A alloc_shape \in AllocShapes, num_layers \in 0..MaxLayers :
       (exposed_init_cache(alloc_shape, num_layers) /\ result' = Ack) =>
         \A cache \in {Get(self'.k_cache), Get(self'.v_cache)} :
            /\ Len(cache) = num_layers
            /\ \A l \in 1..Len(cache) :
                 /\ cache[l].shape = alloc_shape
                 /\ DOMAIN cache[l].blocks = 1..alloc_shape[1]
                 /\ \A b \in DOMAIN cache[l].blocks : cache[l].blocks[b] = 0]_vars

\* An all-zero cache of MaxLayers layers right after an acknowledged call,
\* while the output buffer still holds what a forward wrote: the forward ran
\* on (and wrote) an earlier cache, which this exposed_init_cache replaced.
C6_Witness ==
  /\ result = Ack
  /\ IsSet(self.k_cache) /\ Len(Get(self.k_cache)) = MaxLayers
  /\ ~SomeBlockWritten(self)
  /\ IsSet(self.output_tensor)
  /\ \E i \in DOMAIN Get(self.output_tensor).rows : Get(self.output_tensor).rows[i] # 0

\* C7: a forward that runs with model, scratch pool, output buffer and cache
\* in place changes no cache entry (layer, block id) whose block id is not in
\* the block table of its batch descriptor.
C7_WriteIsolation ==
  [][ForwardReturn =>
       LET ids == Get(call).input_meta_data.block_tables
       IN /\ IsSet(self'.k_cache) /\ IsSet(self'.v_cache)
          /\ Len(Get(self'.k_cache)) = Len(Get(self.k_cache))
          /\ Len(Get(self'.v_cache)) = Len(Get(self.v_cache))
          /\ \A l \in 1..Len(Get(self.k_cache)) :
               \A b \in DOMAIN Get(self.k_cache)[l].blocks : b \notin ids =>
                  Get(self'.k_cache)[l].blocks[b] = Get(self.k_cache)[l].blocks[b]
          /\ \A l \in 1..Len(Get(self.v_cache)) :
               \A b \in DOMAIN Get(self.v_cache)[l].blocks : b \notin ids =>
                  Get(self'.v_cache)[l].blocks[b] = Get(self.v_cache)[l].blocks[b]]_vars

\* A forward has written one block and left another block of the same layer
\* as exposed_init_cache made it.
C7_Witness ==
  /\ result.status = "logits"
  /\ \E l \in 1..Len(Get(self.k_cache)) :
       \E b1, b2 \in DOMAIN Get(self.k_cache)[l].blocks :
          /\ Get(self.k_cache)[l].blocks[b1] # 0
          /\ Get(self.k_cache)[l].blocks[b2] = 0

\* The other ranks of the worker's tensor-parallel subgroup.
SubgroupPeers ==
  (TpGroup(Get(dist).rank, Get(self.model).tp_size) \cap Members) \ {Get(dist).rank}

\* C8: while a rank of the tensor-parallel subgroup has not issued the
\* matching forward call, the forward calls of the others stay blocked: they
\* do not return, with a result or with an error.  Once every rank of the
\* subgroup is in the call, the call returns.
C8_LockstepForward ==
  /\ [][(pc = "forward" /\ \E r \in SubgroupPeers : peers[r] # "forward")
          => (pc' = "forward" /\ result' = result /\ call' = call)]_vars
  /\ [][\A r \in Ranks : (peers[r] = "forward" /\ pc # "forward")
          => peers'[r] = "forward"]_vars
  /\ (pc = "forward" /\ \A r \in SubgroupPeers : peers[r] = "forward")
       ~> (pc = "idle" /\ result.invoked /\ \A r \in Ranks : peers[r] # "forward")

\* The worker is in the forward of a tensor-parallel model and a rank of its
\* subgroup has not called.
C8_Witness ==
  /\ pc = "forward"
  /\ Get(self.model).enable_tensor_parallelism
  /\ \E r \in SubgroupPeers : peers[r] = "idle"

\* C9: an exposed_init_model(config, locator, policy) that returned normally
\* leaves the config it was given, one output buffer of shape
\* [max_batch_size, hidden_size] and a scratch pool of exactly one buffer set
\* sized from that config, whatever the pool held before; and the same call
\* made again leaves attributes and pool exactly as they are.
C9_InitModelIdempotent ==
  [][\A param \in ConfigParams, model_or_path \in ModelInputs, policy \in PolicyNames :
       ( /\ result' = Ack
         /\ model_or_path.kind = "path"
         /\ exposed_init_model(param, model_or_path, policy) ) =>
         LET cfg == from_rpc_param(param)
             mc == Get(self'.model_config)
             again == InitModelBody(self', fd_singleton', Get(dist).world_size,
                                    param, model_or_path, policy)
         IN /\ self'.inference_config = Val(cfg)
            /\ Get(self'.output_tensor).shape = <<cfg.max_batch_size, mc.hidden_size>>
            /\ Len(Get(self'.output_tensor).rows) = cfg.max_batch_size
            /\ fd_singleton' =
                 <<[shape |-> <<cfg.max_batch_size * (cfg.max_n_spec_tokens + 1),
                                mc.num_attention_heads \div cfg.tp_size,
                                kv_max_split_num(cfg),
                                mc.hidden_size \div mc.num_attention_heads>>,
                    dtype |-> cfg.dtype]>>
            /\ again = [s |-> self', fd |-> fd_singleton', err |-> ""]]_vars

\* An acknowledged call on a worker whose cache a forward has written: the
\* model was initialised before that forward and has now been initialised
\* once more, over a scratch pool that was in use.
C9_Witness ==
  /\ result = Ack
  /\ SomeBlockWritten(self)
  /\ Len(fd_singleton) = 1

\* The logits of a forward as a function of the token ids, the batch
\* descriptor, the cache contents on entry and the sharded model alone.
RefLogits(model, input_token_ids, meta, k_cache, v_cache) ==
  [i \in 1..meta.batch_size |->
     LogitRow(model, input_token_ids, meta, k_cache, v_cache, i)]

C11_RejectionLeavesState ==
  [][( /\ \/ /\ ~cache_done
             /\ \E input_token_ids \in TokenInputs, meta \in MetaParams :
                  ForwardCall(input_token_ids, meta)
          \/ /\ ~model_done
             /\ \E alloc_shape \in AllocShapes, num_layers \in 0..MaxLayers :
                  exposed_init_cache(alloc_shape, num_layers)
          \/ /\ ~IsSet(dist)
             /\ \E param \in ConfigParams, model_or_path \in ModelInputs,
                   policy \in PolicyNames :
                  exposed_init_model(param, model_or_path, policy)
       /\ pc' = "idle"
       /\ result'.status = "error" )
       => (self' = self /\ fd_singleton' = fd_singleton)]_vars

\* C12: exposed_init_model called with a policy name that is not a key of
\* _supported_model_policies fails, installs no model, and leaves the stored
\* inference config, the dtype, the model handle and the scratch pool as
\* they were before the call.
C12_UnknownPolicyLeavesState ==
  [][\A param \in ConfigParams, model_or_path \in ModelInputs, policy \in PolicyNames :
       ( /\ policy # NoPolicy
         /\ policy \notin _supported_model_policies
         /\ exposed_init_model(param, model_or_path, policy) ) =>
         /\ result'.status = "error"
         /\ model_done' = model_done
         /\ self'.model = self.model
         /\ self'.inference_config = self.inference_config
         /\ self'.dtype = self.dtype
         /\ self'.fd_inter_tensor = self.fd_inter_tensor
         /\ fd_singleton' = fd_singleton]_vars

\* C13: whenever the worker is inside the model's forward, the slice of the
\* output buffer it handed to the model has exactly batch_size rows.
C13_OutputSliceHasBatchRows ==
  pc = "forward" => Get(call).rows = Get(call).input_meta_data.batch_size

\* ceil(a / b) for a >= 0 and b >= 1: the least n with n * b >= a.
Ceil(a, b) ==
  CHOOSE n \in 0..a : /\ n * b >= a
                      /\ \A m \in 0..a : m * b >= a => n <= m

\* C14: after an exposed_init_model that returned normally (every step of
\* SizingSpec is an exposed_init_model call; result' = Ack picks those that
\* returned normally) the scratch pool holds one buffer set of size
\* (max_batch_size * (max_n_spec_tokens + 1), num_attention_heads div tp_size,
\* ceil((max_input_len + max_output_len) / block_size),
\* hidden_size div num_attention_heads) for the config of that call, for
\* every max_input_len, max_output_len >= 0 and every block_size >= 1.
C14_ScratchPoolSized ==
  [][(result' = Ack /\ model_done') =>
       LET cfg == Get(self'.inference_config)
           mc == Get(self'.model_config)
       IN fd_singleton' =
            <<[shape |-> <<cfg.max_batch_size * (cfg.max_n_spec_tokens + 1),
                           mc.num_attention_heads \div cfg.tp_size,
                           Ceil(cfg.max_input_len + cfg.max_output_len, cfg.block_size),
                           mc.hidden_size \div mc.num_attention_heads>>,
               dtype |-> cfg.dtype]>>]_vars

\* A scratch pool sized for a config whose sequence length is not a multiple
\* of its block size (rounding up and rounding down differ), with a
\* speculative-token budget.
C14_Witness ==
  /\ model_done
  /\ Len(fd_singleton) = 1
  /\ LET cfg == Get(self.inference_config)
     IN /\ cfg.block_size > 1
        /\ cfg.max_n_spec_tokens > 0
        /\ (cfg.max_input_len + cfg.max_output_len) % cfg.block_size # 0
        /\ fd_singleton[1].shape[3] * cfg.block_size
             > cfg.max_input_len + cfg.max_output_len

\* 0 + 1 + ... + (world_size - 1)
SumRanks(world_size) == (world_size * (world_size - 1)) \div 2

\* Where rank r stands after the step.
WhereNext(r) == IF r = Get(dist).rank THEN pc' ELSE peers'[r]

\* C15: when every rank of the joined group has called
\* exposed_compute_only_for_test, every call returns, and what each rank
\* returns is 0 + 1 + ... + (world_size - 1); no rank gets past the first
\* barrier, and none returns, before every rank of the group is in the call.
C15_SelfTestSum ==
  /\ [][Barrier2 =>
          /\ \A r \in Members : data[r] = SumRanks(Get(dist).world_size)
          /\ result' = [status |-> "value", err |-> "", invoked |-> FALSE,
                        value |-> <<SumRanks(Get(dist).world_size)>>]]_vars
  /\ [](IsSet(dist) =>
          \A r \in Members : Where(r) \in {"all_reduce", "barrier2"} =>
             \A q \in Members : Where(q) = Where(r))
  /\ [][IsSet(dist) =>
          \A r \in Members :
             (Where(r) \in {"barrier1", "all_reduce", "barrier2"} /\ WhereNext(r) = "idle")
               => \A q \in Members : Where(q) = "barrier2"]_vars
  /\ (IsSet(dist) /\ \A r \in Members : Where(r) = "barrier1")
       ~> ( /\ IsSet(dist)
            /\ \A r \in Members : Where(r) = "idle"
            /\ result.status = "value" )

\* The self-test of a group of MaxWorldSize ranks has returned their sum.
C15_Witness ==
  /\ IsSet(dist)
  /\ Get(dist).world_size = MaxWorldSize
  /\ result.status = "value"
  /\ result.value = <<SumRanks(MaxWorldSize)>>

\* C16: in every state in which exposed_init_model has completed (the worker
\* is ModelReady or Serving), the stored inference config has
\* tp_size * pp_size equal to the world size of the joined group.
C16_StoredConfigCoversGroup ==
  model_done =>
    LET cfg == Get(self.inference_config)
    IN cfg.tp_size * cfg.pp_size = Get(dist).world_size

\* C17: in every state in which a forward call would reach the model (model,
\* scratch pool, output buffer and both cache lists are assigned), every key
\* and value cache array has the dtype of the stored inference config.
C17_CacheDtypeIsConfigDtype ==
  (\A i \in 1..Len(ForwardReads) : IsSet(self[ForwardReads[i]])) =>
    \A cache \in {Get(self.k_cache), Get(self.v_cache)} :
       \A l \in 1..Len(cache) :
          cache[l].dtype = Get(self.inference_config).dtype

====
